---- MODULE Spec2Model ----
(***************************************************************************)
(* Model of storms/_datasource.py: the _DataSource series requests.        *)
(*                                                                         *)
(* Time is counted in half-minute ticks, so that pd.Timedelta("1 minute")  *)
(* is 2 ticks and a pull frequency finer than one minute exists.           *)
(***************************************************************************)
EXTENDS Integers, Sequences, FiniteSets, TLC

\* ---------------------------------------------------------------- bounds
MaxT == 3
MaxConn == 2
MaxCarry == 0

\* pd.Timedelta("1 minute"), in ticks
Minute == 2

Times == 0..MaxT
ConnLimits == 1..MaxConn

\* pull_freq: an anchored offset (like "YS": boundaries at fixed instants)
\* or a tick offset (like "30S", "D": boundaries counted from dStart)
Freqs ==
    { [kind |-> "anchored", period |-> 2],
      [kind |-> "tick", period |-> 1],
      [kind |-> "tick", period |-> 3] }

\* ------------------------------------------------- pandas index helpers
RECURSIVE Gen(_, _, _)
Gen(b, dEnd, period) ==
    IF b > dEnd THEN <<>> ELSE <<b>> \o Gen(b + period, dEnd, period)

\* pd.date_range(dStart, dEnd, freq=pull_freq)
date_range(dStart, dEnd, freq) ==
    IF freq.kind = "anchored"
    THEN Gen(((dStart + freq.period - 1) \div freq.period) * freq.period,
             dEnd, freq.period)
    ELSE Gen(dStart, dEnd, freq.period)

\* Index.insert(loc, item), loc counted from 0
insert(idx, loc, item) ==
    SubSeq(idx, 1, loc) \o <<item>> \o SubSeq(idx, loc + 1, Len(idx))

Elems(s) == { s[k] : k \in 1..Len(s) }

\* Index.drop_duplicates(): the first occurrence of each value is kept
RECURSIVE drop_duplicates(_)
drop_duplicates(idx) ==
    IF idx = <<>> THEN <<>>
    ELSE LET front == drop_duplicates(SubSeq(idx, 1, Len(idx) - 1))
             last == idx[Len(idx)]
         IN IF last \in Elems(front) THEN front ELSE Append(front, last)

\* dRange as both series requests build it
MakeRange(dStart, dEnd, freq) ==
    LET r1 == insert(date_range(dStart, dEnd, freq), 0, dStart)
    IN drop_duplicates(insert(r1, Len(r1), dEnd))

\* number of per-range requests: range(len(dRange) - 1)
NumPairs(r) == Len(r) - 1

\* the (start, end) keyword arguments of the k-th per-range request, k from 1
\* (the code's i = k - 1)
PairEnd_unshifted(r, k) == r[k + 1]

PairEnd(r, k) == r[k + 1] - Minute

Pair(r, k) == [start |-> r[k], end |-> PairEnd(r, k)]

Plan(r) == [k \in 1..NumPairs(r) |-> Pair(r, k)]

\* the per-range fetch of a subclass, taken as a deterministic function of
\* its interval
Payload(p) == <<p.start, p.end>>

\* ------------------------------------------------------ progress tracker
NoBar == [has |-> FALSE, n |-> 0, total |-> 0, desc |-> ""]

\* an operation on self.bar raises AttributeError when the attribute is gone
NeedsBar(p, b) == p /\ ~b.has

_init_progress(p, b, totalDuration) ==
    IF p /\ ~b.has
    THEN [has |-> TRUE, n |-> 0, total |-> totalDuration, desc |-> ""]
    ELSE b

_increment_progress_lost(p, b) == b

_increment_progress_unguarded(p, b) ==
    IF b.has THEN [b EXCEPT !.n = @ + 1] ELSE b

_increment_progress(p, b) ==
    IF p /\ b.has THEN [b EXCEPT !.n = @ + 1] ELSE b

_update_progress_description(p, b, description) ==
    IF p /\ b.has THEN [b EXCEPT !.desc = description] ELSE b

_close_progress(p, b) ==
    IF p /\ b.has THEN NoBar ELSE b

\* ------------------------------------------------------------------ state
VARIABLES
    progress,    \* self.progress
    bar,         \* self.bar (has = FALSE: the attribute does not exist)
    trackerErr,  \* the last tracker operation raised AttributeError
    fresh,       \* history: self.bar was created by the current request
    pc,          \* "idle", "call_sync", "call_async", "sync", "async", "returned", "raised"
    req,         \* the arguments of the current series request
    dRange,      \* the boundaries of the current request
    calls,       \* the (start, end) pairs handed to the per-range fetch
    data,        \* sequential mode: the list being built
    session,     \* sequential mode: the requests Session
    connector,   \* concurrent mode: the TCPConnector
    client,      \* concurrent mode: the RetryClient
    status,      \* concurrent mode: the state of each task
    results,     \* concurrent mode: the result stored in each finished task
    conns,       \* concurrent mode: the tasks holding an open connection
    mustCancel,  \* concurrent mode: the tasks whose cancellation is requested
    doneOrder,   \* history: the tasks in the order they finished
    outer,       \* concurrent mode: the future returned by asyncio.gather
    seriesCancel,\* concurrent mode: the series coroutine must raise CancelledError
    ret,         \* the list the request returned
    error,       \* the error the request raised
    closes,      \* history: _close_progress calls since the bar was last made
    rt           \* one per-range request seen through both retrying transports

vars == << progress, bar, trackerErr, fresh, pc, req, dRange, calls, data,
           session, connector, client, status, results, conns, mustCancel,
           doneOrder, outer, seriesCancel, ret, error, closes, rt >>

trackerVars == << progress, bar, trackerErr, fresh, closes >>
syncVars == << data, session >>
asyncVars == << connector, client, status, results, conns, mustCancel,
                doneOrder, outer, seriesCancel >>

NoReq == [mode |-> "none", start |-> 0, end |-> 0,
          freq |-> [kind |-> "tick", period |-> 1], conn_limit |-> 0]
None == <<"None">>
NoError == [kind |-> "none", index |-> 0]

Tasks == 1..Len(status)
InFlight == { t \in Tasks : status[t] \in {"waiting", "active"} }
Finished == Tasks \ InFlight
Running == pc \in {"sync", "async"}

\* no per-range request is being retried
NoRetry == [script |-> <<>>, sTries |-> 0, sOut |-> "idle",
            aTries |-> 0, aOut |-> "idle"]

\* _DataSource.__init__
Init ==
    /\ progress = TRUE
    /\ bar = NoBar
    /\ trackerErr = FALSE
    /\ fresh = FALSE
    /\ pc = "idle"
    /\ req = NoReq
    /\ dRange = <<>>
    /\ calls = <<>>
    /\ data = <<>>
    /\ session = "none"
    /\ connector = "none"
    /\ client = "none"
    /\ status = <<>>
    /\ results = <<>>
    /\ conns = {}
    /\ mustCancel = {}
    /\ doneOrder = <<>>
    /\ outer = "none"
    /\ seriesCancel = FALSE
    /\ ret = None
    /\ error = NoError
    /\ closes = 0
    /\ rt = NoRetry

\* a block that forgets to release what it opened
with_exit_leak(resource) == resource

\* leaving a with / async with block, by return or by exception: __exit__ /
\* __aexit__ closes the resource
with_exit(resource) == "closed"

\* a caller may enter a request once the previous one has left the call
CanStart ==
    /\ ~Running
    /\ pc \notin {"call_sync", "call_async"}
    /\ InFlight = {}
    /\ bar.has => bar.n <= MaxCarry

\* request_dataframe: the flag is set, then the mode is chosen; the state of
\* the previous request (locals of a call that is over) is forgotten
request_dataframe(p, aSync) ==
    /\ CanStart
    /\ progress' = p
    /\ pc' = IF aSync THEN "call_async" ELSE "call_sync"
    /\ req' = NoReq
    /\ dRange' = <<>>
    /\ calls' = <<>>
    /\ data' = <<>>
    /\ session' = "none"
    /\ connector' = "none"
    /\ client' = "none"
    /\ status' = <<>>
    /\ results' = <<>>
    /\ conns' = {}
    /\ mustCancel' = {}
    /\ doneOrder' = <<>>
    /\ outer' = "none"
    /\ seriesCancel' = FALSE
    /\ ret' = None
    /\ error' = NoError
    /\ trackerErr' = FALSE
    /\ fresh' = FALSE
    /\ UNCHANGED << bar, closes, rt >>

\* ------------------------------------------------------- sequential mode
\* _sync_request_data_series up to the first iteration of the loop
SyncStart(dStart, dEnd, freq) ==
    LET r == MakeRange(dStart, dEnd, freq)
        b1 == _init_progress(progress, bar, NumPairs(r))
    IN /\ pc = "call_sync"
       /\ req' = [mode |-> "sync", start |-> dStart, end |-> dEnd,
                  freq |-> freq, conn_limit |-> 0]
       /\ dRange' = r
       /\ fresh' = (progress /\ ~bar.has)
       /\ bar' = _update_progress_description(progress, b1, "Downloading")
       /\ session' = "open"
       /\ data' = <<>>
       /\ pc' = "sync"
       /\ closes' = IF progress THEN 0 ELSE closes
       /\ UNCHANGED << progress, trackerErr, calls, ret, error, rt >>
       /\ UNCHANGED asyncVars

\* one iteration of the loop whose _sync_request_data returns
SyncFetchOk ==
    /\ pc = "sync"
    /\ Len(data) < NumPairs(dRange)
    /\ LET k == Len(data) + 1
       IN /\ calls' = Append(calls, Pair(dRange, k))
          /\ data' = Append(data, Payload(Pair(dRange, k)))
    /\ bar' = _increment_progress(progress, bar)
    /\ UNCHANGED << progress, trackerErr, fresh, closes, pc, req, dRange,
                    session, ret, error, rt >>
    /\ UNCHANGED asyncVars

\* a loop that counts the failed fetch before the exception leaves it
SyncFetchFail_counted(kind) ==
    /\ pc = "sync"
    /\ Len(data) < NumPairs(dRange)
    /\ calls' = Append(calls, Pair(dRange, Len(data) + 1))
    /\ session' = with_exit(session)
    /\ pc' = "raised"
    /\ error' = [kind |-> kind, index |-> Len(data) + 1]
    /\ bar' = _increment_progress(progress, bar)
    /\ UNCHANGED << progress, trackerErr, fresh, closes, data, req, dRange,
                    ret, rt >>
    /\ UNCHANGED asyncVars

\* a loop that notes the error of a failed fetch and goes on with the plan
SyncFetchFail_continue(kind) ==
    /\ pc = "sync"
    /\ Len(data) < NumPairs(dRange)
    /\ calls' = Append(calls, Pair(dRange, Len(data) + 1))
    /\ data' = Append(data, None)
    /\ error' = [kind |-> kind, index |-> Len(data) + 1]
    /\ UNCHANGED << pc, session, req, dRange, ret, rt >>
    /\ UNCHANGED trackerVars
    /\ UNCHANGED asyncVars

\* one iteration of the loop whose _sync_request_data raises: the exception
\* leaves the loop and the with block
SyncFetchFail(kind) ==
    /\ pc = "sync"
    /\ Len(data) < NumPairs(dRange)
    /\ calls' = Append(calls, Pair(dRange, Len(data) + 1))
    /\ session' = with_exit(session)
    /\ pc' = "raised"
    /\ error' = [kind |-> kind, index |-> Len(data) + 1]
    /\ UNCHANGED << data, req, dRange, ret, rt >>
    /\ UNCHANGED trackerVars
    /\ UNCHANGED asyncVars

\* the loop is over: the with block is left and data is returned
SyncReturn ==
    /\ pc = "sync"
    /\ Len(data) = NumPairs(dRange)
    /\ session' = with_exit(session)
    /\ pc' = "returned"
    /\ ret' = data
    /\ UNCHANGED << data, req, dRange, calls, error, rt >>
    /\ UNCHANGED trackerVars
    /\ UNCHANGED asyncVars

\* ------------------------------------------------------- concurrent mode
\* a gather that hands the results back in the order the tasks finished
gather_as_completed(res, order) == [k \in 1..Len(res) |-> res[order[k]]]

\* asyncio.gather(*tasks): the list of the tasks' results, in argument order,
\* whatever the order they finished in
gather(res, order) == [k \in 1..Len(res) |-> res[k]]

\* the state of gather's future right after it is created: with no task at
\* all it is already resolved with []
gather_start(n) == IF n = 0 THEN "result" ELSE "pending"

\* a gather that treats a failed or cancelled task as one more finished task
gather_done_swallow(o, st, t) ==
    IF o # "pending" THEN o
    ELSE IF \A u \in 1..Len(st) : st[u] \notin {"waiting", "active"}
         THEN "result"
    ELSE o

\* gather's callback on a finished task t (return_exceptions is False): the
\* first failure or cancellation resolves the future at once, success only
\* when every task has finished
gather_done(o, st, t) ==
    IF o # "pending" THEN o
    ELSE IF st[t] = "cancelled" THEN "cancelled"
    ELSE IF st[t] = "failed" THEN "exception"
    ELSE IF \A u \in 1..Len(st) : st[u] \notin {"waiting", "active"}
         THEN "result"
    ELSE o

\* TCPConnector(limit=conn_limit): a connection is handed out while fewer
\* than limit are open
connector_admits(held, limit) == Cardinality(held) < limit

\* _async_request_data_series up to the await of gather
AsyncStart(dStart, dEnd, freq, conn_limit) ==
    LET r == MakeRange(dStart, dEnd, freq)
        n == NumPairs(r)
        b1 == _init_progress(progress, bar, n)
    IN /\ pc = "call_async"
       /\ req' = [mode |-> "async", start |-> dStart, end |-> dEnd,
                  freq |-> freq, conn_limit |-> conn_limit]
       /\ dRange' = r
       /\ fresh' = (progress /\ ~bar.has)
       /\ bar' = _update_progress_description(progress, b1, "Downloading")
       /\ connector' = "open"
       /\ client' = "open"
       /\ status' = [k \in 1..n |-> "waiting"]
       /\ results' = [k \in 1..n |-> None]
       /\ calls' = Plan(r)
       /\ outer' = gather_start(n)
       /\ pc' = "async"
       /\ closes' = IF progress THEN 0 ELSE closes
       /\ UNCHANGED << progress, trackerErr, ret, error, conns, mustCancel,
                       doneOrder, seriesCancel, rt >>
       /\ UNCHANGED syncVars

\* a task gets a connection from the connector
Acquire(t) ==
    /\ t \in Tasks
    /\ status[t] = "waiting"
    /\ t \notin mustCancel
    /\ connector = "open"
    /\ connector_admits(conns, req.conn_limit)
    /\ status' = [status EXCEPT ![t] = "active"]
    /\ conns' = conns \cup {t}
    /\ UNCHANGED << pc, req, dRange, calls, ret, error, connector, client,
                    results, mustCancel, doneOrder, outer, seriesCancel, rt >>
    /\ UNCHANGED trackerVars
    /\ UNCHANGED syncVars

\* the done callbacks of a task that has just finished, in the order they
\* were added: _increment_progress, then gather's
TaskDone(t, st) ==
    /\ status' = st
    /\ conns' = conns \ {t}
    /\ mustCancel' = mustCancel \ {t}
    /\ doneOrder' = Append(doneOrder, t)
    /\ bar' = _increment_progress(progress, bar)
    /\ trackerErr' = (trackerErr \/ NeedsBar(progress, bar))
    /\ outer' = gather_done(outer, st, t)
    /\ UNCHANGED << progress, fresh, closes, pc, req, dRange, calls, ret,
                    error, connector, client, seriesCancel, rt >>
    /\ UNCHANGED syncVars

\* _async_request_data returns its payload
TaskOk(t) ==
    /\ t \in Tasks
    /\ status[t] = "active"
    /\ t \in conns
    /\ t \notin mustCancel
    /\ results' = [results EXCEPT ![t] = Payload(calls[t])]
    /\ TaskDone(t, [status EXCEPT ![t] = "ok"])

\* _async_request_data raises: its attempts are used up, or the connector
\* was closed under it
TaskFail(t) ==
    /\ t \in Tasks
    /\ t \notin mustCancel
    /\ \/ status[t] = "active"
       \/ status[t] = "waiting" /\ connector = "closed"
    /\ UNCHANGED results
    /\ TaskDone(t, [status EXCEPT ![t] = "failed"])

\* a task whose cancellation was requested raises CancelledError
TaskCancelled(t) ==
    /\ t \in InFlight
    /\ t \in mustCancel
    /\ UNCHANGED results
    /\ TaskDone(t, [status EXCEPT ![t] = "cancelled"])

\* the caller cancels the series request while it awaits gather:
\* Task.cancel -> _GatheringFuture.cancel -> cancel of every unfinished child;
\* a future that is already resolved cannot be cancelled, and then the
\* series coroutine itself is marked
Cancel ==
    /\ pc = "async"
    /\ ~seriesCancel
    /\ mustCancel = {}
    /\ IF outer = "pending"
       THEN /\ mustCancel' = InFlight
            /\ UNCHANGED seriesCancel
       ELSE /\ seriesCancel' = TRUE
            /\ UNCHANGED mustCancel
    /\ UNCHANGED << pc, req, dRange, calls, ret, error, connector, client,
                    status, results, conns, doneOrder, outer, rt >>
    /\ UNCHANGED trackerVars
    /\ UNCHANGED syncVars

\* the await of gather is over: the series coroutine returns the list or
\* raises, and both async with blocks are left
AsyncWake ==
    /\ pc = "async"
    /\ outer # "pending"
    /\ IF outer = "result" /\ ~seriesCancel
       THEN /\ pc' = "returned"
            /\ ret' = gather(results, doneOrder)
            /\ UNCHANGED error
       ELSE /\ pc' = "raised"
            /\ error' = IF outer = "exception" /\ ~seriesCancel
                        THEN [kind |-> "FetchError",
                              index |-> CHOOSE t \in Tasks :
                                          /\ status[t] = "failed"
                                          /\ \A k \in 1..Len(doneOrder) :
                                               status[doneOrder[k]] = "failed"
                                               => \E j \in 1..k : doneOrder[j] = t]
                        ELSE [kind |-> "CancelledError", index |-> 0]
            /\ UNCHANGED ret
    /\ client' = with_exit(client)
    /\ connector' = with_exit(connector)
    /\ conns' = {}
    /\ UNCHANGED << req, dRange, calls, status, results, mustCancel,
                    doneOrder, outer, seriesCancel, rt >>
    /\ UNCHANGED trackerVars
    /\ UNCHANGED syncVars

\* 1 after a _close_progress that removed the bar, 2 after one more call
\* with no _init_progress in between
close_count(p, b, c) ==
    IF p /\ b.has THEN 1
    ELSE IF p /\ c >= 1 THEN 2
    ELSE c

\* the caller of the series request closes the tracker
CloseProgress ==
    /\ pc \in {"idle", "returned", "raised"}
    /\ bar' = _close_progress(progress, bar)
    /\ trackerErr' = NeedsBar(progress, bar)
    /\ fresh' = FALSE
    /\ closes' = close_count(progress, bar, closes)
    /\ UNCHANGED << progress, pc, req, dRange, calls, ret, error, rt >>
    /\ UNCHANGED syncVars
    /\ UNCHANGED asyncVars

Next ==
    \/ \E p \in BOOLEAN, aSync \in BOOLEAN : request_dataframe(p, aSync)
    \/ \E dStart \in Times, dEnd \in Times, freq \in Freqs :
          SyncStart(dStart, dEnd, freq)
    \/ SyncFetchOk
    \/ \E kind \in {"FetchError", "KeyboardInterrupt"} : SyncFetchFail(kind)
    \/ SyncReturn
    \/ \E dStart \in Times, dEnd \in Times, freq \in Freqs, l \in ConnLimits :
          AsyncStart(dStart, dEnd, freq, l)
    \/ \E t \in Tasks : Acquire(t)
    \/ \E t \in Tasks : TaskOk(t)
    \/ \E t \in Tasks : TaskFail(t)
    \/ \E t \in Tasks : TaskCancelled(t)
    \/ Cancel
    \/ AsyncWake
    \/ CloseProgress

Spec == Init /\ [][Next]_vars

\* ------------------------------------------------------ retrying transports
\* Retry(total=5, ...): the number of retries after the first attempt
sync_total == 5

\* ExponentialRetry(attempts=5, ...): the number of attempts, the first included
async_attempts == 5

\* what one attempt can meet: 0 is a network error, the others HTTP statuses
Codes == {0, 200, 500, 503}

\* sync_retries: network errors and the statuses of status_forcelist
sync_retryable(code) == code = 0 \/ code \in {502, 503, 504}

\* the default retry_options: every exception and every server error
\* (statuses is empty, retry_all_server_errors is left at True)
async_retryable(code) == code = 0 \/ code >= 500

sync_max_attempts == sync_total + 1

async_max_attempts == async_attempts

\* HTTPAdapter(max_retries=sync_retries) after attempt k met code: the
\* response goes back to the caller, or the attempt is repeated, or the
\* retries are used up and the adapter raises
sync_after(k, code) ==
    IF ~sync_retryable(code) THEN "response"
    ELSE IF k >= sync_max_attempts THEN "error"
    ELSE "pending"

\* RetryClient(retry_options=...) after attempt k met code: on the last
\* attempt an exception is raised and a response is handed back as it is
async_after(k, code) ==
    IF ~async_retryable(code) THEN "response"
    ELSE IF k >= async_max_attempts
         THEN (IF code = 0 THEN "error" ELSE "response")
    ELSE "pending"

\* the attempt k of a per-range request meets the same condition through
\* either transport (the server is deterministic)
Served(k, code) ==
    IF k <= Len(rt.script) THEN code = rt.script[k] ELSE code \in Codes

Serve(k, code) ==
    IF k <= Len(rt.script) THEN rt.script ELSE Append(rt.script, code)

mainVars == << progress, bar, trackerErr, fresh, closes, pc, req, dRange,
               calls, data, session, connector, client, status, results,
               conns, mustCancel, doneOrder, outer, seriesCancel, ret, error >>

\* one attempt of the request through the sequential transport
SyncAttempt(code) ==
    /\ rt.sOut = "pending"
    /\ Served(rt.sTries + 1, code)
    /\ rt' = [rt EXCEPT !.script = Serve(rt.sTries + 1, code),
                        !.sTries = @ + 1,
                        !.sOut = sync_after(rt.sTries + 1, code)]
    /\ UNCHANGED mainVars

\* one attempt of the request through the concurrent transport
AsyncAttempt(code) ==
    /\ rt.aOut = "pending"
    /\ Served(rt.aTries + 1, code)
    /\ rt' = [rt EXCEPT !.script = Serve(rt.aTries + 1, code),
                        !.aTries = @ + 1,
                        !.aOut = async_after(rt.aTries + 1, code)]
    /\ UNCHANGED mainVars

\* the same per-range request is about to be sent through both transports
RetryInit ==
    /\ progress = TRUE
    /\ bar = NoBar
    /\ trackerErr = FALSE
    /\ fresh = FALSE
    /\ pc = "idle"
    /\ req = NoReq
    /\ dRange = <<>>
    /\ calls = <<>>
    /\ data = <<>>
    /\ session = "none"
    /\ connector = "none"
    /\ client = "none"
    /\ status = <<>>
    /\ results = <<>>
    /\ conns = {}
    /\ mustCancel = {}
    /\ doneOrder = <<>>
    /\ outer = "none"
    /\ seriesCancel = FALSE
    /\ ret = None
    /\ error = NoError
    /\ closes = 0
    /\ rt = [NoRetry EXCEPT !.sOut = "pending", !.aOut = "pending"]

RetryNext ==
    \/ \E code \in Codes : SyncAttempt(code)
    \/ \E code \in Codes : AsyncAttempt(code)

RetrySpec == RetryInit /\ [][RetryNext]_vars

\* ------------------------------------------------------------- properties
N == NumPairs(dRange)
Started == req.mode # "none"
Forward == Started /\ req.start <= req.end
Exited == pc \in {"returned", "raised"}
\* every pair of the plan has been handed to the per-range fetch
AllHanded == Started /\ Len(calls) = N

\* the list a request must return: the payload of sub-interval k at place k
InPlanOrder(r) == [k \in 1..NumPairs(r) |-> Payload(Pair(r, k))]

\* C1: whatever order the tasks finish in, the list the concurrent request
\* returns has the result of sub-interval k at position k; it is the list
\* the sequential request returns for the same start, end and frequency
C1_PlanOrder ==
    pc = "returned" =>
        /\ ret = InPlanOrder(MakeRange(req.start, req.end, req.freq))
        /\ \A k \in 1..Len(ret) : ret[k] = Payload(calls[k])

\* a concurrent request has returned although a later task finished first
C1_Witness ==
    /\ pc = "returned"
    /\ req.mode = "async"
    /\ Len(doneOrder) >= 3
    /\ doneOrder[1] > doneOrder[2]

\* C2: a request that has left the call either returned a list of exactly N
\* results and raised nothing, or raised and returned nothing: the error of
\* the first fetch that failed terminally, or the cancellation the caller
\* asked for; a list of fewer than N results is never returned
C2_AllOrNothing ==
    Exited =>
        \/ /\ pc = "returned"
           /\ ret # None
           /\ Len(ret) = N
           /\ \A k \in 1..N : ret[k] # None
           /\ error = NoError
        \/ /\ pc = "raised"
           /\ ret = None
           /\ \/ /\ error.kind = "FetchError"
                 /\ error.index \in 1..N
                 /\ req.mode = "async" => status[error.index] = "failed"
                 /\ req.mode = "sync" => error.index = Len(data) + 1
              \/ error.kind \in {"CancelledError", "KeyboardInterrupt"}

\* a request raised the error of a failed fetch after other fetches had
\* already produced their results
C2_Witness ==
    /\ pc = "raised"
    /\ error.kind = "FetchError"
    /\ ret = None
    /\ \/ req.mode = "sync" /\ Len(data) >= 2
       \/ req.mode = "async" /\ \E t \in Tasks : status[t] = "ok"

\* C3: for start <= end the pairs handed to the fetch begin at the requested
\* start and end at the requested end
C3_ExactEnds ==
    (Forward /\ AllHanded /\ N >= 1) =>
        /\ calls[1].start = req.start
        /\ calls[N].end = req.end

\* C4: for start <= end the pairs handed to the fetch do not overlap, and
\* each one ends exactly one minute before the next one starts
C4_NoOverlapNoGap ==
    Forward =>
        /\ \A k \in 1..(Len(calls) - 1) :
              /\ calls[k].end < calls[k + 1].start
              /\ calls[k].end + Minute = calls[k + 1].start
        /\ \A j \in 1..Len(calls), k \in 1..Len(calls) :
              j < k => calls[j].end < calls[k].start

\* two neighbouring pairs of a forward range, cut at an anchored boundary,
\* have been handed to the fetch
C4_Witness ==
    /\ Forward
    /\ Len(calls) >= 2
    /\ req.freq.kind = "anchored"
    /\ calls[1].start <= calls[1].end

\* C5: for start <= end the plan has at least one sub-interval
C5_NonEmptyPlan ==
    (Forward /\ pc \in {"sync", "async", "returned", "raised"}) => N >= 1

\* C6: a request with start > end raises an invalid-range error; no session
\* or connector is opened and no pair is handed to the fetch
C6_ReversedRejected ==
    (Started /\ req.start > req.end) =>
        /\ pc = "raised"
        /\ error.kind = "InvalidRangeError"
        /\ calls = <<>>
        /\ session = "none"
        /\ connector = "none"

\* C7: the concurrent request has not raised while one of its tasks is
\* still in flight
C7_RaiseAfterAllDone ==
    (req.mode = "async" /\ pc = "raised" /\ error.kind = "FetchError") =>
        InFlight = {}

\* C8: once the request has returned or raised, the session, the connector
\* and the retry client it opened are closed
C8_Released ==
    Exited =>
        /\ req.mode = "sync" => session = "closed"
        /\ req.mode = "async" => connector = "closed" /\ client = "closed"
        /\ conns = {}

\* a cancelled concurrent request has raised with its pool closed
C8_Witness ==
    /\ pc = "raised"
    /\ req.mode = "async"
    /\ error.kind = "CancelledError"
    /\ connector = "closed"
    /\ client = "closed"

\* C9: with progress on and a bar made by this request, the counter is the
\* number of fetches that have finished so far, so it goes 0, 1, ..., N by
\* steps of one; it is N when the request returns
C9_CountsCompletions ==
    (Started /\ progress /\ fresh /\ bar.has) =>
        /\ req.mode = "async" => bar.n = Cardinality(Finished)
        /\ req.mode = "async" => bar.n = Len(doneOrder)
        /\ req.mode = "sync" => bar.n = Len(data)
        /\ bar.n <= N
        /\ bar.total = N
        /\ pc = "returned" => bar.n = N

\* a concurrent request with progress has returned after its tasks finished
\* out of plan order, the counter at N
C9_Witness ==
    /\ pc = "returned"
    /\ req.mode = "async"
    /\ progress /\ fresh /\ bar.has
    /\ N >= 3
    /\ bar.n = N
    /\ doneOrder[1] > doneOrder[2]

\* C10: every task of the plan exists as soon as the request awaits, at most
\* conn_limit tasks hold a connection, and a task that waits for a connection
\* (and was not cancelled by the caller) can still be admitted: the connector
\* it queues on is open
C10_Admitted ==
    req.mode = "async" =>
        /\ pc = "async" => Len(status) = N
        /\ Cardinality(conns) <= req.conn_limit
        /\ \A t \in Tasks :
              (status[t] = "waiting" /\ t \notin mustCancel /\ ~seriesCancel)
                  => connector = "open"

\* both transports have finished the per-range request
BothDone == rt.sOut \in {"response", "error"} /\ rt.aOut \in {"response", "error"}

\* every attempt so far met a condition that both transports retry
AlwaysFailing ==
    \A k \in 1..Len(rt.script) :
        sync_retryable(rt.script[k]) /\ async_retryable(rt.script[k])

\* C11: the retry contract is the same in both modes: a per-range request
\* whose every attempt fails with a retryable condition takes the same
\* number of attempts through the sequential and through the concurrent
\* transport, and ends the same way
C11_SameRetryContract ==
    (BothDone /\ AlwaysFailing) =>
        /\ rt.sTries = rt.aTries
        /\ rt.sOut = rt.aOut

\* C12: once a cancelled concurrent request has raised and every requested
\* cancellation has been delivered, no task of the run is in flight and the
\* pool is closed
C12_CancelStopsAll ==
    (req.mode = "async" /\ pc = "raised" /\ error.kind = "CancelledError"
        /\ mustCancel = {}) =>
        /\ InFlight = {}
        /\ connector = "closed"
        /\ client = "closed"

\* C13: for start <= end every pair handed to the fetch has start <= end
C13_PairsOrdered ==
    Forward => \A k \in 1..Len(calls) : calls[k].start <= calls[k].end

\* no fetch of the running request has finished yet
JustStarted ==
    \/ pc = "sync" /\ data = <<>>
    \/ pc = "async" /\ doneOrder = <<>>

\* C14: with progress on, every request starts with the counter at 0 and the
\* total at the length of its own plan, and 0 <= counter <= total always
C14_TrackerReset ==
    (Started /\ progress /\ bar.has) =>
        /\ 0 <= bar.n
        /\ bar.n <= bar.total
        /\ JustStarted => bar.n = 0 /\ bar.total = N

\* C15: in sequential mode the counter is incremented after a fetch that
\* failed too: when the fetch of sub-interval k (from 0) fails, the counter
\* is k + 1 when the request raises
C15_CountsFailure ==
    (req.mode = "sync" /\ pc = "raised" /\ progress /\ fresh /\ bar.has) =>
        bar.n = error.index

\* C15 as amended: in sequential mode the counter is incremented after each
\* fetch that returns and not after one that raises: when the fetch of
\* sub-interval k (from 0) fails, the counter is k when the request raises
C15_CountsSuccessOnly ==
    (req.mode = "sync" /\ progress /\ fresh /\ bar.has) =>
        /\ bar.n = Len(data)
        /\ pc = "raised" => bar.n = error.index - 1

\* a sequential request with progress has raised at its third fetch
C15_Witness ==
    /\ req.mode = "sync"
    /\ pc = "raised"
    /\ progress /\ fresh /\ bar.has
    /\ error.index = 3
    /\ bar.n = 2

\* C16: in sequential mode the pairs handed to the fetch are the first pairs
\* of the plan, in plan order and each once; the fetch that fails is the
\* last one handed: the request has raised and no later pair follows
C16_InOrderFailFast ==
    req.mode = "sync" =>
        /\ Len(calls) <= N
        /\ calls = SubSeq(Plan(dRange), 1, Len(calls))
        /\ Len(calls) = Len(data) + (IF error.kind = "none" THEN 0 ELSE 1)
        /\ error.kind # "none" => pc = "raised" /\ error.index = Len(calls)

\* a sequential request has raised at its second fetch with a third pair
\* of the plan never handed to the fetch
C16_Witness ==
    /\ req.mode = "sync"
    /\ pc = "raised"
    /\ error.index = 2
    /\ Len(calls) = 2
    /\ N >= 3

\* C17: a second _close_progress, with progress on and no _init_progress in
\* between, raises nothing and leaves the tracker as the first call left it
C17_CloseIdempotent ==
    closes = 2 => ~trackerErr /\ bar = NoBar

\* C18: with progress on, once the request has returned or raised the
\* tracker it initialised is closed: no bar is left on the object
C18_TrackerClosedOnExit ==
    (Started /\ Exited /\ progress) => ~bar.has

\* C19: with progress off no tracker operation changes the bar or raises,
\* and the request returns the list it returns with progress on
C19_DisabledIsNoOp ==
    /\ [][(~progress /\ ~progress') => bar' = bar]_vars
    /\ [](~progress => ~trackerErr)
    /\ []((~progress /\ pc = "returned") => ret = InPlanOrder(dRange))

\* a request with progress off has returned two results while a bar left by
\* an earlier request is still on the object
C19_Witness ==
    /\ ~progress
    /\ bar.has
    /\ pc = "returned"
    /\ Len(ret) >= 2

\* C20: in concurrent mode the retry client and the connector are open as
\* long as a task of the run is in flight
C20_PoolOutlivesTasks ==
    (req.mode = "async" /\ InFlight # {}) =>
        /\ client = "open"
        /\ connector = "open"

====
